---- MODULE Spec2Model ----
(***************************************************************************)
(* Lifting diary: the data layer of the workout log (workouts, the shared  *)
(* exercise catalog, workout exercises and sets) as a state machine.       *)
(*                                                                         *)
(* Every request is one independent execution.  A request is suspended at  *)
(* each awaited storage statement, so each action below is one storage     *)
(* statement together with the code that runs up to the next await.  No    *)
(* function of the data layer opens a transaction: requests interleave     *)
(* freely between their statements.                                        *)
(***************************************************************************)
EXTENDS Integers, Sequences, FiniteSets, TLC

\* ------------------------------------------------------------------------
\* Bounds of the model
\* ------------------------------------------------------------------------
\* One diary, one request at a time (SpecSeq): rows ever created per table
MaxWorkouts == 1
MaxExercises == 1
MaxWorkoutExercises == 2
MaxSets == 3
\* One diary and the page that reads it (SpecTree): rows ever created
TreeWorkoutExercises == 2
TreeSets == 2
\* The add-set form of one diary (SpecForm): rows ever created per table
FormWorkoutExercises == 1
FormSets == 1
\* One diary, overlapping requests (Spec): rows ever created per table
RaceWorkouts == 1
RaceWorkoutExercises == 2
RaceSets == 2
\* One diary, overlapping requests, few rows (SpecIntegrity): rows ever created
IntegrityWorkoutExercises == 1
IntegritySets == 1
\* Two owners side by side (SpecOwners): rows ever created per table
OwnersWorkouts == 1
OwnersWorkoutExercises == 1
OwnersSets == 1
\* The dashboard of two users (SpecDates): workouts ever created, and the
\* length of a day in ticks of the clock (a Date counts milliseconds)
DatesWorkouts == 3
TicksPerDay == 3
\* The server actions of two users (SpecActions): workouts ever created
ActionsWorkouts == 1
\* The catalog alone (SpecCatalog, SpecCatalogSeq): rows ever created
CatalogExercises == 3
\* The catalog and its search (SpecSearch): rows ever created
SearchExercises == 11

\* The requests that can be in flight at the same time
Procs == {1, 2}

\* Clerk user ids; auth() yields userId = null when nobody is signed in.
Users == {"u1", "u2"}
NoUser == "null"
Callers == Users \cup {NoUser}

\* Inputs of the requests
\* Workout names are sequences of characters; an argument that is left out
UNDEF == <<"undefined">>
\* z.string().max(100)
NameMax == 100
Repeat(c, n) == [i \in 1..n |-> c]
\* Names typed into the workout forms: none, blank, short, padded, the longest
\* allowed, one longer, and the longest allowed with a blank after it
WorkoutNames ==
  { <<>>, <<" ">>, <<"a">>, <<" ", "a", " ">>, Repeat("a", NameMax),
    Repeat("a", NameMax + 1), Repeat("a", NameMax) \o <<" ">> }
\* new Date(x) of a value that is no date
InvalidDate == -1
\* a workoutId that is no uuid
InvalidUuid == -1
\* The storage statement of a server action succeeds or fails with some text
StorageOk == "ok"
StorageErrors == {"storage: connection terminated", "storage: timeout"}
RepsInputs == {5}
\* A nullable column or argument holds at most one value
NULL == {}
Some(x) == {x}
\* What a user types into the fields of the add-set form
NoValues == [weightKg |-> <<>>, reps |-> <<>>, restTime |-> <<>>]
RepsTyped ==
  { <<"0">>, <<"1">>, <<"1", "0", "0", "0">>, <<"1", "0", "0", "1">>,
    <<"1", ".", "5">>, <<>> }
WeightTyped == { <<>>, <<"1", ".", "2", "5">>, <<"1", ".", "2", "5", "5">> }
RestTimeTyped ==
  { <<>>, <<"-", "1">>, <<"0">>, <<"3", "6", "0", "0">>, <<"3", "6", "0", "1">> }
ExerciseNames == { <<"B">>, <<"b">>, <<" ", "b">>, <<"B", " ">>, <<"%">> }
\* limit: 10
SearchLimit == 10
\* The names given to the exercises of a catalog that is searched, in the
\* order in which they are created, and the terms typed into the search box
SearchNames ==
  << <<"b", "5">>, <<"b">>, <<"b", "0">>, <<"0">>, <<"b", "9">>, <<"b", "1">>,
     <<"b", "8">>, <<"b", "2">>, <<"b", "7">>, <<"b", "3">>, <<"b", "6">>,
     <<"b", "4">>, <<"1", "b">>, <<"0", "0">> >>
SearchTerms == { <<>>, <<"b">>, <<"B">>, <<"0">>, <<"b", "1">>, <<"%">>, <<"_">> }

VARIABLES
  workouts,          \* table workouts
  exercises,         \* table exercises (the shared catalog)
  workoutExercises,  \* table workout_exercises
  sets,              \* table sets
  nextId,            \* the ids the store has not handed out yet
  req,               \* per request in flight: its arguments, position, locals
  response           \* the outcome of the request that finished last

vars == <<workouts, exercises, workoutExercises, sets, nextId, req, response>>
tables == <<workouts, exercises, workoutExercises, sets, nextId>>

\* ------------------------------------------------------------------------
\* Strings: exercise names are sequences of characters
\* ------------------------------------------------------------------------
IsSpace(c) == c = " "

Lower(c) == IF c = "B" THEN "b" ELSE c

RECURSIVE TrimStart(_)
TrimStart(s) ==
  IF s = <<>> THEN s
  ELSE IF IsSpace(Head(s)) THEN TrimStart(Tail(s)) ELSE s

RECURSIVE TrimEnd(_)
TrimEnd(s) ==
  IF s = <<>> THEN s
  ELSE IF IsSpace(s[Len(s)]) THEN TrimEnd(SubSeq(s, 1, Len(s) - 1)) ELSE s

\* String.prototype.trim
Trim(s) == TrimEnd(TrimStart(s))

\* SQL ILIKE: the second operand is a pattern, % matches any run of
\* characters, _ matches one character, letters match ignoring case.
RECURSIVE ILike(_, _)
ILike(s, pat) ==
  IF pat = <<>> THEN s = <<>>
  ELSE IF Head(pat) = "%"
    THEN ILike(s, Tail(pat)) \/ (s # <<>> /\ ILike(Tail(s), pat))
  ELSE IF s = <<>> THEN FALSE
  ELSE IF Head(pat) = "_" THEN ILike(Tail(s), Tail(pat))
  ELSE Lower(Head(s)) = Lower(Head(pat)) /\ ILike(Tail(s), Tail(pat))

\* Two names are equal ignoring case
RECURSIVE EqualIgnoringCase(_, _)
EqualIgnoringCase(a, b) ==
  IF a = <<>> \/ b = <<>> THEN a = b
  ELSE Lower(Head(a)) = Lower(Head(b)) /\ EqualIgnoringCase(Tail(a), Tail(b))

\* ------------------------------------------------------------------------
\* Outcomes of a request
\* ------------------------------------------------------------------------
\* rows: the workouts a result holds; list: the same as the ordered, nested
\* value a query returns
NoResult == [kind |-> "none", msg |-> "", id |-> 0, rows |-> {}, list |-> <<>>]
Returned(id, rows) == [NoResult EXCEPT !.kind = "return", !.id = id, !.rows = rows]
Thrown(m) == [NoResult EXCEPT !.kind = "throw", !.msg = m]
\* A server action or route handler answers with an error object
Failed(m) == [NoResult EXCEPT !.kind = "fail", !.msg = m]

\* Errors raised by the storage engine (constraint violations)
UniqueViolation == "storage: duplicate key value violates unique constraint"
ForeignKeyViolation == "storage: insert violates foreign key constraint"

\* ------------------------------------------------------------------------
\* The tables
\* ------------------------------------------------------------------------
WorkoutOf(id) == {w \in workouts : w.id = id}
WorkoutExerciseOf(id) == {we \in workoutExercises : we.id = id}
SetOf(id) == {s \in sets : s.id = id}
SetsOf(weId) == {s \in sets : s.workoutExerciseId = weId}
ExercisesOfWorkout(wId) == {we \in workoutExercises : we.workoutId = wId}

\* workoutExercises.workout -> workouts.userId : the owner of a workout exercise
OwnerOfWorkoutExercise(we) == (CHOOSE w \in workouts : w.id = we.workoutId).userId
\* sets.workoutExercise.workout.userId : the owner of a set
OwnerOfSet(s) ==
  OwnerOfWorkoutExercise(CHOOSE we \in workoutExercises : we.id = s.workoutExerciseId)

MaxOf(S) == CHOOSE x \in S : \A y \in S : y <= x

\* How the id a request names relates to its caller (kept for the record of
\* the run; the code does not branch on it).
Classify(owners, caller) ==
  IF owners = {} THEN "missing"
  ELSE IF owners = {caller} THEN "own" ELSE "foreign"

\* The orders in which a query may return the rows S
Perms(S) ==
  {f \in [1..Cardinality(S) -> S] :
     \A i \in DOMAIN f : \A j \in DOMAIN f : i # j => f[i] # f[j]}

\* (sets ordered the other way round)
SetListsDescending(weId) ==
  {l \in Perms(SetsOf(weId)) :
     \A i \in DOMAIN l : \A j \in DOMAIN l :
        i < j => l[i].setNumber >= l[j].setNumber}

\* with: { sets: { orderBy: asc(sets.setNumber) } }
SetLists(weId) ==
  {l \in Perms(SetsOf(weId)) :
     \A i \in DOMAIN l : \A j \in DOMAIN l :
        i < j => l[i].setNumber <= l[j].setNumber}

\* with: { workoutExercises: { orderBy: asc(workoutExercises.order) } }
ExerciseLists(wId) ==
  {l \in Perms(ExercisesOfWorkout(wId)) :
     \A i \in DOMAIN l : \A j \in DOMAIN l :
        i < j => l[i].order <= l[j].order}

\* with: { exercise: true, sets: ... }
Node(we, setList) ==
  [workoutExercise |-> we,
   exercise |-> {e \in exercises : e.id = we.exerciseId},
   sets |-> setList]

\* The nested values the relational query may build for the workout wId:
\* rows that are equal in the sort column come in any order
Trees(wId) ==
  UNION {
    {[i \in DOMAIN el |-> Node(el[i], g[i])] :
       g \in {h \in [DOMAIN el ->
                       UNION {SetLists(we.id) : we \in ExercisesOfWorkout(wId)}] :
                \A i \in DOMAIN el : h[i] \in SetLists(el[i].id)}} :
    el \in ExerciseLists(wId)}

WithTree(w, tree) == [workout |-> w, workoutExercises |-> tree]

\* ------------------------------------------------------------------------
\* Requests
\* ------------------------------------------------------------------------
Idle ==
  [op |-> "none", pc |-> "idle", caller |-> NoUser, id |-> 0, exerciseId |-> 0,
   ename |-> <<>>, weightKg |-> NULL, reps |-> 0, restTime |-> NULL,
   values |-> NoValues, local |-> 0]

NoResponse ==
  [op |-> "none", caller |-> NoUser, id |-> 0, name |-> <<>>, date |-> 0,
   target |-> "none", values |-> NoValues, result |-> NoResult, log |-> ""]

Init ==
  /\ workouts = {}
  /\ exercises = {}
  /\ workoutExercises = {}
  /\ sets = {}
  /\ nextId = [workout |-> 1, exercise |-> 1, workoutExercise |-> 1, set |-> 1]
  /\ req = [p \in Procs |-> Idle]
  /\ response = NoResponse

Pending(op) == Cardinality({p \in Procs : req[p].op = op})

\* (a guard that lets everybody in)
NotSignedInNever(userId) == FALSE

\* `if (!userId)`
NotSignedIn(userId) == userId = NoUser

\* A request arrives and is served by p; auth() resolves its caller.
Accept(p, userId) ==
  /\ req[p] = Idle
  /\ ~NotSignedIn(userId)

At(p, op, pc) == req[p].op = op /\ req[p].pc = pc

\* The request answers its client with outcome res.
\* The record keeps the request with it: the function, the caller, the id or
\* the name it was called with, and whose row that id named.
Reply(op, userId, id, t, res) ==
  response' = [NoResponse EXCEPT !.op = op, !.caller = userId, !.id = id,
                                 !.target = t, !.result = res]

ReplyCreateExercise(userId, name, res) ==
  response' = [NoResponse EXCEPT !.op = "createExercise", !.caller = userId,
                                 !.name = name, !.result = res]

\* The request goes on to its next statement.
Goto(p, r) == req' = [req EXCEPT ![p] = r]

\* A server action answers; name is the name it was called with, log is what
\* it wrote with console.error
ReplyAction(op, userId, id, name, t, res, log) ==
  response' = [NoResponse EXCEPT !.op = op, !.caller = userId, !.id = id,
                                 !.name = name, !.target = t, !.result = res,
                                 !.log = log]

Ops ==
  {"getWorkouts", "getWorkoutsByDate", "getWorkoutById", "GET",
   "createWorkoutAction", "updateWorkoutAction", "updateWorkout",
   "addExerciseToWorkout", "deleteWorkoutExercise", "addSet", "deleteSet",
   "getExercises", "searchExercises", "createExercise", "getExerciseById"}

\* auth() and the `if (!userId)` guard that opens every function
UnauthenticatedResult(op) ==
  IF op \in {"createWorkoutAction", "updateWorkoutAction"}
    THEN Failed("Unauthorized")
  ELSE IF op = "GET" THEN Failed("401 Unauthorized")
  ELSE Thrown("Unauthorized")

Unauthenticated(p, op) ==
  /\ req[p] = Idle
  /\ NotSignedIn(NoUser)
  /\ Reply(op, NoUser, 0, "none", UnauthenticatedResult(op))
  /\ UNCHANGED <<tables, req>>

\* (no catch: the error goes on to the caller)
CaughtRethrown(res, generic) == res

\* (a catch that hands the text of the error to the caller)
CaughtWithMessage(res, generic) ==
  IF res.kind = "throw" THEN Failed(res.msg) ELSE res

\* try { ... } catch (error) { console.error(..., error); return { success:
\* false, error: generic } }
Caught(res, generic) == IF res.kind = "throw" THEN Failed(generic) ELSE res
Logged(res) == IF res.kind = "throw" THEN res.msg ELSE ""

\* ------------------------------------------------------------------------
\* workouts
\* ------------------------------------------------------------------------
\* date-fns startOfDay and endOfDay: the first and the last tick of the day
StartOfDay(date) == date - (date % TicksPerDay)
EndOfDay(date) == StartOfDay(date) + TicksPerDay - 1

\* (a window that leaves out its last tick)
InDayExclusive(startedAt, start, end) == startedAt >= start /\ startedAt < end

\* gte(workouts.startedAt, start), lte(workouts.startedAt, end)
InDay(startedAt, start, end) == startedAt >= start /\ startedAt <= end

\* orderBy: desc(workouts.startedAt), each workout with its nested rows
WorkoutLists(found) ==
  UNION {
    {[i \in DOMAIN ws |-> WithTree(ws[i], g[i])] :
       g \in {h \in [DOMAIN ws -> UNION {Trees(w.id) : w \in found}] :
                \A i \in DOMAIN ws : h[i] \in Trees(ws[i].id)}} :
    ws \in {l \in Perms(found) :
              \A i \in DOMAIN l : \A j \in DOMAIN l :
                 i < j => l[i].startedAt >= l[j].startedAt}}

\* (a query that selects the workouts of everybody)
GetWorkoutsWhereAnyOwner(w, userId) == TRUE

\* getWorkouts: where: eq(workouts.userId, userId)
GetWorkoutsWhere(w, userId) == w.userId = userId

\* getWorkouts: findMany of the caller's workouts; rows are the rows the
\* query selects, list is the value that is returned
getWorkouts(p, userId) ==
  /\ Accept(p, userId)
  /\ LET found == {w \in workouts : GetWorkoutsWhere(w, userId)}
     IN \E list \in WorkoutLists(found) :
          response' = [NoResponse EXCEPT
                         !.op = "getWorkouts", !.caller = userId,
                         !.result = [Returned(0, found) EXCEPT !.list = list]]
  /\ UNCHANGED <<tables, req>>

\* getWorkoutsByDate: findMany of the caller's workouts of the day of date
getWorkoutsByDate(p, userId, date) ==
  /\ Accept(p, userId)
  /\ LET start == StartOfDay(date)
         end == EndOfDay(date)
         found == {w \in workouts :
                     w.userId = userId /\ InDay(w.startedAt, start, end)}
     IN \E list \in WorkoutLists(found) :
          response' = [NoResponse EXCEPT
                         !.op = "getWorkoutsByDate", !.caller = userId,
                         !.date = date,
                         !.result = [Returned(0, found) EXCEPT !.list = list]]
  /\ UNCHANGED <<tables, req>>

\* (a lookup that never compares the owner)
GetWorkoutByIdResultAnyOwner(workoutId, userId) ==
  LET found == WorkoutOf(workoutId) IN
  IF found = {} THEN Thrown("Unauthorized") ELSE Returned(workoutId, found)

\* getWorkoutById: findFirst by id, then the ownership check
GetWorkoutByIdResult(workoutId, userId) ==
  LET found == WorkoutOf(workoutId) IN
  IF found = {} \/ (\E w \in found : w.userId # userId)
    THEN Thrown("Unauthorized")
    ELSE Returned(workoutId, found)

WorkoutTarget(workoutId, userId) ==
  Classify({w.userId : w \in WorkoutOf(workoutId)}, userId)

\* The values getWorkoutById may return: the workout with its nested rows
GetWorkoutByIdResults(workoutId, userId) ==
  LET res == GetWorkoutByIdResult(workoutId, userId) IN
  IF res.kind = "throw" THEN {res}
  ELSE {[res EXCEPT !.list = <<WithTree(w, tree)>>] :
          w \in res.rows, tree \in Trees(workoutId)}

getWorkoutById(p, userId, workoutId) ==
  /\ Accept(p, userId)
  /\ \E res \in GetWorkoutByIdResults(workoutId, userId) :
       Reply("getWorkoutById", userId, workoutId, WorkoutTarget(workoutId, userId),
             res)
  /\ UNCHANGED <<tables, req>>

\* GET /api/workouts/[workoutId]: getWorkoutById inside try/catch
GET(p, userId, workoutId) ==
  /\ Accept(p, userId)
  /\ \E res \in GetWorkoutByIdResults(workoutId, userId) :
       Reply("GET", userId, workoutId, WorkoutTarget(workoutId, userId),
             IF res.kind = "throw" THEN Failed("500 Failed to fetch workout") ELSE res)
  /\ UNCHANGED <<tables, req>>

\* name: z.string().min(1, ...).max(100, ...).trim(): the checks run in the
\* order they are written, on the value as it is when they run
NameSchemaError(name) ==
  IF Len(name) < 1 THEN "Name is required"
  ELSE IF Len(name) > NameMax THEN "Name must be less than 100 characters"
  ELSE ""

\* validation.data.name
NameSchemaData(name) == Trim(name)

\* startedAt: z.coerce.date()
DateSchemaError(startedAt) == IF startedAt = InvalidDate THEN "Invalid date" ELSE ""

\* workoutId: z.string().uuid()
UuidSchemaError(workoutId) == IF workoutId = InvalidUuid THEN "Invalid uuid" ELSE ""

\* issues[0]?.message: the message of the first key that fails
FirstError(messages) ==
  LET failed == SelectSeq(messages, LAMBDA m : m # "") IN
  IF failed = <<>> THEN "" ELSE Head(failed)

CreateWorkoutSchemaError(name, startedAt) ==
  FirstError(<<NameSchemaError(name), DateSchemaError(startedAt)>>)

UpdateWorkoutSchemaError(workoutId, name, startedAt) ==
  FirstError(<<UuidSchemaError(workoutId), NameSchemaError(name),
               DateSchemaError(startedAt)>>)

\* (the owner is somebody the request names, not the user auth() resolved)
CreateWorkoutDataOfOther(userId, name, startedAt) ==
  [userId |-> CHOOSE u \in Users : u # userId, name |-> NameSchemaData(name),
   startedAt |-> startedAt]

\* createWorkout({ userId, name: validation.data.name, startedAt:
\* validation.data.startedAt }): userId is the one auth() resolved; the
\* schema has no other key, so nothing else of the input gets through
CreateWorkoutData(userId, name, startedAt) ==
  [userId |-> userId, name |-> NameSchemaData(name), startedAt |-> startedAt]

\* createWorkoutAction: safeParse, then createWorkout inserts with the
\* resolved userId; the insert succeeds or fails as storage says
createWorkoutAction(p, userId, name, startedAt, storage) ==
  /\ Accept(p, userId)
  /\ LET error == CreateWorkoutSchemaError(name, startedAt)
         res == IF storage = StorageOk THEN Returned(nextId.workout, {})
                ELSE Thrown(storage)
     IN IF error # ""
          THEN /\ ReplyAction("createWorkoutAction", userId, 0, name, "none",
                              Failed(error), "")
               /\ UNCHANGED <<workouts, nextId>>
          ELSE /\ IF storage = StorageOk
                    THEN /\ LET data == CreateWorkoutData(userId, name, startedAt)
                            IN workouts' = workouts \cup
                                 {[id |-> nextId.workout, userId |-> data.userId,
                                   name |-> data.name,
                                   startedAt |-> data.startedAt]}
                         /\ nextId' = [nextId EXCEPT !.workout = @ + 1]
                    ELSE UNCHANGED <<workouts, nextId>>
               /\ ReplyAction("createWorkoutAction", userId, res.id, name, "none",
                              Caught(res, "Failed to create workout"), Logged(res))
  /\ UNCHANGED <<exercises, workoutExercises, sets, req>>

\* createWorkout: the helper inserts the row it is handed, data.userId
\* included, and does not call auth(); caller is the user the session of the
\* request belongs to, which the function never looks at
createWorkout(p, caller, userId, name, startedAt) ==
  /\ req[p] = Idle
  /\ workouts' = workouts \cup
       {[id |-> nextId.workout, userId |-> userId, name |-> name,
         startedAt |-> startedAt]}
  /\ nextId' = [nextId EXCEPT !.workout = @ + 1]
  /\ Reply("createWorkout", caller, nextId.workout, "none",
           Returned(nextId.workout, {}))
  /\ UNCHANGED <<exercises, workoutExercises, sets, req>>

\* (a SET clause that writes the whole row and leaves the owner out)
UpdateSetLosingOwner(w, name, startedAt) ==
  [w EXCEPT !.userId = NoUser, !.name = IF name = UNDEF THEN @ ELSE name,
            !.startedAt = startedAt]

\* (a WHERE clause that forgets the owner)
UpdateWhereAnyOwner(w, workoutId, userId) == w.id = workoutId

\* updateWorkout: the rows its WHERE clause selects
UpdateWhere(w, workoutId, userId) == w.id = workoutId /\ w.userId = userId

\* .set({name, startedAt}): an undefined value leaves the column alone
UpdateSet(w, name, startedAt) ==
  [w EXCEPT !.name = IF name = UNDEF THEN @ ELSE name, !.startedAt = startedAt]

updateWorkout(p, userId, workoutId, name, startedAt) ==
  /\ Accept(p, userId)
  /\ LET hit == {w \in workouts : UpdateWhere(w, workoutId, userId)}
         new == {UpdateSet(w, name, startedAt) : w \in hit}
     IN /\ workouts' = (workouts \ hit) \cup new
        /\ Reply("updateWorkout", userId, workoutId, WorkoutTarget(workoutId, userId),
                 IF new = {} THEN Thrown("Workout not found or unauthorized")
                 ELSE Returned(workoutId, new))
  /\ UNCHANGED <<exercises, workoutExercises, sets, nextId, req>>

\* updateWorkoutAction: safeParse, then updateWorkout with the parsed data;
\* the update succeeds or fails as storage says
updateWorkoutAction(p, userId, workoutId, name, startedAt, storage) ==
  /\ Accept(p, userId)
  /\ LET error == UpdateWorkoutSchemaError(workoutId, name, startedAt)
         t == WorkoutTarget(workoutId, userId)
         hit == {w \in workouts : UpdateWhere(w, workoutId, userId)}
         new == {UpdateSet(w, NameSchemaData(name), startedAt) : w \in hit}
         res == IF storage # StorageOk THEN Thrown(storage)
                ELSE IF new = {} THEN Thrown("Workout not found or unauthorized")
                ELSE Returned(workoutId, {})
     IN IF error # ""
          THEN /\ ReplyAction("updateWorkoutAction", userId, workoutId, name, t,
                              Failed(error), "")
               /\ UNCHANGED workouts
          ELSE /\ workouts' = IF storage = StorageOk
                                THEN (workouts \ hit) \cup new ELSE workouts
               /\ ReplyAction("updateWorkoutAction", userId, workoutId, name, t,
                              Caught(res, "Failed to update workout"), Logged(res))
  /\ UNCHANGED <<exercises, workoutExercises, sets, nextId, req>>

\* ------------------------------------------------------------------------
\* workout exercises
\* ------------------------------------------------------------------------
\* addExerciseToWorkout, "Verify workout belongs to user": getWorkoutById
addExerciseToWorkout_getWorkoutById(p, userId, workoutId, exerciseId) ==
  /\ Accept(p, userId)
  /\ LET res == GetWorkoutByIdResult(workoutId, userId) IN
       IF res.kind = "throw"
         THEN /\ Reply("addExerciseToWorkout", userId, workoutId,
                       WorkoutTarget(workoutId, userId), res)
              /\ UNCHANGED req
         ELSE /\ Goto(p, [Idle EXCEPT !.op = "addExerciseToWorkout",
                            !.pc = "findMany", !.caller = userId,
                            !.id = workoutId, !.exerciseId = exerciseId])
              /\ UNCHANGED response
  /\ UNCHANGED tables

\* (an order that starts at 1, as the set numbers do)
NextOrderFromOne(existingExercises) ==
  IF existingExercises # {}
    THEN MaxOf({we.order : we \in existingExercises}) + 1
    ELSE 1

\* "Get next order number" from the row findMany(desc order, limit 1) yields
NextOrder(existingExercises) ==
  IF existingExercises # {}
    THEN MaxOf({we.order : we \in existingExercises}) + 1
    ELSE 0

addExerciseToWorkout_findMany(p) ==
  /\ At(p, "addExerciseToWorkout", "findMany")
  /\ req' = [req EXCEPT ![p].pc = "insert",
                        ![p].local = NextOrder(ExercisesOfWorkout(req[p].id))]
  /\ UNCHANGED <<tables, response>>

\* insert into workout_exercises; both foreign keys are checked by the store
addExerciseToWorkout_insert(p) ==
  /\ At(p, "addExerciseToWorkout", "insert")
  /\ IF WorkoutOf(req[p].id) = {} \/ {e \in exercises : e.id = req[p].exerciseId} = {}
       THEN /\ Reply("addExerciseToWorkout", req[p].caller, req[p].id, "own",
                     Thrown(ForeignKeyViolation))
            /\ UNCHANGED tables
       ELSE /\ workoutExercises' = workoutExercises \cup
                 {[id |-> nextId.workoutExercise, workoutId |-> req[p].id,
                   exerciseId |-> req[p].exerciseId, order |-> req[p].local]}
            /\ nextId' = [nextId EXCEPT !.workoutExercise = @ + 1]
            /\ Reply("addExerciseToWorkout", req[p].caller, req[p].id, "own",
                     Returned(nextId.workoutExercise, {}))
            /\ UNCHANGED <<workouts, exercises, sets>>
  /\ req' = [req EXCEPT ![p] = Idle]

\* (a check that never sees the sets)
HasDependentSetsNever(existingSets) == FALSE

\* "Only allow deletion if there are no sets"
HasDependentSets(existingSets) == Cardinality(existingSets) > 0

HasDependentSetsMessage ==
  "Cannot delete exercise with existing sets. Delete all sets first."

WorkoutExerciseTarget(workoutExerciseId, userId) ==
  Classify({OwnerOfWorkoutExercise(we) : we \in WorkoutExerciseOf(workoutExerciseId)},
           userId)

\* (a delete that runs before the checks)
deleteWorkoutExercise_deleteFirst(p, userId, workoutExerciseId) ==
  /\ Accept(p, userId)
  /\ workoutExercises' = workoutExercises \ WorkoutExerciseOf(workoutExerciseId)
  /\ sets' = sets \ SetsOf(workoutExerciseId)
  /\ LET found == WorkoutExerciseOf(workoutExerciseId) IN
       Reply("deleteWorkoutExercise", userId, workoutExerciseId,
             WorkoutExerciseTarget(workoutExerciseId, userId),
             IF found = {} THEN Thrown("Exercise not found")
             ELSE IF \E we \in found : OwnerOfWorkoutExercise(we) # userId
               THEN Thrown("Unauthorized")
             ELSE IF HasDependentSets(SetsOf(workoutExerciseId))
               THEN Thrown(HasDependentSetsMessage)
             ELSE Returned(workoutExerciseId, {}))
  /\ UNCHANGED <<workouts, exercises, nextId, req>>

\* deleteWorkoutExercise: findFirst with its workout and its sets, the checks
deleteWorkoutExercise_findFirst(p, userId, workoutExerciseId) ==
  /\ Accept(p, userId)
  /\ LET found == WorkoutExerciseOf(workoutExerciseId)
         t == WorkoutExerciseTarget(workoutExerciseId, userId)
         Answer(res) ==
           /\ Reply("deleteWorkoutExercise", userId, workoutExerciseId, t, res)
           /\ UNCHANGED req
     IN IF found = {}
          THEN Answer(Thrown("Exercise not found"))
        ELSE IF \E we \in found : OwnerOfWorkoutExercise(we) # userId
          THEN Answer(Thrown("Unauthorized"))
        ELSE IF HasDependentSets(SetsOf(workoutExerciseId))
          THEN Answer(Thrown(HasDependentSetsMessage))
        ELSE /\ Goto(p, [Idle EXCEPT !.op = "deleteWorkoutExercise", !.pc = "delete",
                           !.caller = userId, !.id = workoutExerciseId])
             /\ UNCHANGED response
  /\ UNCHANGED tables

\* delete from workout_exercises where id = ...; its sets go with it
\* (sets.workout_exercise_id references it ON DELETE CASCADE)
deleteWorkoutExercise_delete(p) ==
  /\ At(p, "deleteWorkoutExercise", "delete")
  /\ workoutExercises' = workoutExercises \ WorkoutExerciseOf(req[p].id)
  /\ sets' = sets \ SetsOf(req[p].id)
  /\ Reply("deleteWorkoutExercise", req[p].caller, req[p].id, "own",
           Returned(req[p].id, {}))
  /\ req' = [req EXCEPT ![p] = Idle]
  /\ UNCHANGED <<workouts, exercises, nextId>>

\* ------------------------------------------------------------------------
\* sets
\* ------------------------------------------------------------------------
\* (a set number taken from the number of sets)
NextSetNumberByCount(existingSets) == Cardinality(existingSets) + 1

\* "Calculate next set number" from the row sets(desc setNumber, limit 1)
NextSetNumber(existingSets) ==
  IF existingSets # {}
    THEN MaxOf({s.setNumber : s \in existingSets}) + 1
    ELSE 1

\* addSet: findFirst with its workout and its highest set, the checks
AddSetFindFirst(p, userId, workoutExerciseId, weightKg, reps, restTime) ==
  /\ LET found == WorkoutExerciseOf(workoutExerciseId)
         t == WorkoutExerciseTarget(workoutExerciseId, userId)
         Answer(res) ==
           /\ Reply("addSet", userId, workoutExerciseId, t, res)
           /\ req' = [req EXCEPT ![p] = Idle]
     IN IF found = {}
          THEN Answer(Thrown("Exercise not found"))
        ELSE IF \E we \in found : OwnerOfWorkoutExercise(we) # userId
          THEN Answer(Thrown("Unauthorized"))
        ELSE /\ Goto(p, [Idle EXCEPT !.op = "addSet", !.pc = "insert",
                           !.caller = userId, !.id = workoutExerciseId,
                           !.weightKg = weightKg, !.reps = reps,
                           !.restTime = restTime,
                           !.local = NextSetNumber(SetsOf(workoutExerciseId))])
             /\ UNCHANGED response
  /\ UNCHANGED tables

addSet_findFirst(p, userId, workoutExerciseId, weightKg, reps, restTime) ==
  /\ Accept(p, userId)
  /\ AddSetFindFirst(p, userId, workoutExerciseId, weightKg, reps, restTime)

\* (an insert into a table without the foreign key)
addSet_insertUnchecked(p) ==
  /\ At(p, "addSet", "insert")
  /\ sets' = sets \cup
       {[id |-> nextId.set, workoutExerciseId |-> req[p].id,
         setNumber |-> req[p].local, weightKg |-> req[p].weightKg,
         reps |-> req[p].reps, restTime |-> req[p].restTime]}
  /\ nextId' = [nextId EXCEPT !.set = @ + 1]
  /\ Reply("addSet", req[p].caller, req[p].id, "own", Returned(nextId.set, {}))
  /\ req' = [req EXCEPT ![p] = Idle]
  /\ UNCHANGED <<workouts, exercises, workoutExercises>>

\* insert into sets; the foreign key to workout_exercises is checked
addSet_insert(p) ==
  /\ At(p, "addSet", "insert")
  /\ IF WorkoutExerciseOf(req[p].id) = {}
       THEN /\ Reply("addSet", req[p].caller, req[p].id, "own",
                     Thrown(ForeignKeyViolation))
            /\ UNCHANGED tables
       ELSE /\ sets' = sets \cup
                 {[id |-> nextId.set, workoutExerciseId |-> req[p].id,
                   setNumber |-> req[p].local, weightKg |-> req[p].weightKg,
                   reps |-> req[p].reps, restTime |-> req[p].restTime]}
            /\ nextId' = [nextId EXCEPT !.set = @ + 1]
            /\ Reply("addSet", req[p].caller, req[p].id, "own",
                     Returned(nextId.set, {}))
            /\ UNCHANGED <<workouts, exercises, workoutExercises>>
  /\ req' = [req EXCEPT ![p] = Idle]

\* ------------------------------------------------------------------------
\* the add-set form
\* ------------------------------------------------------------------------
Digits == <<"0", "1", "2", "3", "4", "5", "6", "7", "8", "9">>
IsDigit(c) == \E i \in 1..10 : Digits[i] = c
DigitValue(c) == (CHOOSE i \in 1..10 : Digits[i] = c) - 1

\* the longest run of digits a string starts with
RECURSIVE DigitPrefix(_)
DigitPrefix(s) ==
  IF s = <<>> \/ ~IsDigit(Head(s)) THEN <<>>
  ELSE <<Head(s)>> \o DigitPrefix(Tail(s))

RECURSIVE NumberOf(_)
NumberOf(d) ==
  IF d = <<>> THEN 0
  ELSE NumberOf(SubSeq(d, 1, Len(d) - 1)) * 10 + DigitValue(d[Len(d)])

NaN == [nan |-> TRUE, value |-> 0]

\* The integer a text denotes as a whole: a sign and digits, nothing else
IntegerOf(s) ==
  LET t == Trim(s)
      u == IF t # <<>> /\ Head(t) \in {"-", "+"} THEN Tail(t) ELSE t
  IN IF u = <<>> \/ DigitPrefix(u) # u THEN NaN
     ELSE [nan |-> FALSE,
           value |-> IF Head(t) = "-" THEN 0 - NumberOf(u) ELSE NumberOf(u)]

\* parseInt(s, 10): leading white space, a sign, then digits up to the first
\* character that is not a digit; NaN when there is no digit
ParseInt(s) ==
  LET t == TrimStart(s)
      u == IF t # <<>> /\ Head(t) \in {"-", "+"} THEN Tail(t) ELSE t
      d == DigitPrefix(u)
  IN IF d = <<>> THEN NaN
     ELSE [nan |-> FALSE,
           value |-> IF Head(t) = "-" THEN 0 - NumberOf(d) ELSE NumberOf(d)]

\* /^\d+(\.\d{1,2})?$/.test(s)
WeightRegex(s) ==
  LET whole == DigitPrefix(s)
      rest == SubSeq(s, Len(whole) + 1, Len(s))
  IN /\ whole # <<>>
     /\ \/ rest = <<>>
        \/ /\ Head(rest) = "."
           /\ Len(rest) \in {2, 3}
           /\ DigitPrefix(Tail(rest)) = Tail(rest)

\* `values.x && values.x.trim() !== ''`
Provided(s) == s # <<>> /\ Trim(s) # <<>>

\* formSchema (zodResolver, run by handleSubmit) and the checks of onSubmit,
\* in their order: the message shown for the first check that fails
AddSetFormError(values) ==
  LET reps == ParseInt(values.reps)
      restTime == ParseInt(values.restTime)
  IN IF Len(values.reps) < 1 THEN "Reps required"
     ELSE IF reps.nan \/ reps.value < 1 \/ reps.value > 1000
       THEN "Reps must be a number between 1 and 1000"
     ELSE IF Provided(values.weightKg) /\ ~WeightRegex(values.weightKg)
       THEN "Weight must be a valid number with up to 2 decimal places"
     ELSE IF Provided(values.restTime) /\
             (restTime.nan \/ restTime.value < 0 \/ restTime.value > 3600)
       THEN "Rest time must be a number between 0 and 3600 seconds"
     ELSE ""

\* AddSetForm.onSubmit: the form of a workout exercise is submitted with the
\* typed values; it shows an error, or calls addSetAction with the converted
\* values and waits for it
AddSetForm_onSubmit(p, userId, workoutExerciseId, values) ==
  /\ Accept(p, userId)
  /\ IF AddSetFormError(values) # ""
       THEN /\ response' =
                 [NoResponse EXCEPT
                    !.op = "AddSetForm", !.caller = userId, !.id = workoutExerciseId,
                    !.target = WorkoutExerciseTarget(workoutExerciseId, userId),
                    !.values = values,
                    !.result = Failed(AddSetFormError(values))]
            /\ UNCHANGED req
       ELSE /\ Goto(p, [Idle EXCEPT
                   !.op = "AddSetForm", !.pc = "addSetAction", !.caller = userId,
                   !.id = workoutExerciseId, !.values = values,
                   !.weightKg = IF Provided(values.weightKg)
                                  THEN Some(values.weightKg) ELSE NULL,
                   !.reps = ParseInt(values.reps).value,
                   !.restTime = IF Provided(values.restTime)
                                  THEN Some(ParseInt(values.restTime).value)
                                  ELSE NULL])
            /\ UNCHANGED response
  /\ UNCHANGED tables

\* Create-set precondition of the mutation entry point
CreateSetPrecondition(data) ==
  /\ data.reps \in 1..1000
  /\ \A t \in data.restTime : t \in 0..3600
  /\ \A w \in data.weightKg : WeightRegex(w)

\* addSetAction: the entry point validates its input and calls addSet
addSetAction(p) ==
  /\ At(p, "AddSetForm", "addSetAction")
  /\ IF ~CreateSetPrecondition(req[p])
       THEN /\ Reply("addSetAction", req[p].caller, req[p].id, "none",
                     Failed("InvalidInput"))
            /\ req' = [req EXCEPT ![p] = Idle]
            /\ UNCHANGED tables
       ELSE AddSetFindFirst(p, req[p].caller, req[p].id,
                            req[p].weightKg, req[p].reps, req[p].restTime)

SetTarget(setId, userId) == Classify({OwnerOfSet(s) : s \in SetOf(setId)}, userId)

\* deleteSet: findFirst with workoutExercise.workout, the checks
deleteSet_findFirst(p, userId, setId) ==
  /\ Accept(p, userId)
  /\ LET found == SetOf(setId)
         t == SetTarget(setId, userId)
         Answer(res) ==
           /\ Reply("deleteSet", userId, setId, t, res)
           /\ UNCHANGED req
     IN IF found = {}
          THEN Answer(Thrown("Set not found"))
        ELSE IF \E s \in found : OwnerOfSet(s) # userId
          THEN Answer(Thrown("Unauthorized"))
        ELSE /\ Goto(p, [Idle EXCEPT !.op = "deleteSet", !.pc = "delete",
                           !.caller = userId, !.id = setId])
             /\ UNCHANGED response
  /\ UNCHANGED tables

\* delete from sets where id = ...
DeleteSetWhere(s, setId) == s.id = setId

deleteSet_delete(p) ==
  /\ At(p, "deleteSet", "delete")
  /\ sets' = {s \in sets : ~DeleteSetWhere(s, req[p].id)}
  /\ Reply("deleteSet", req[p].caller, req[p].id, "own", Returned(req[p].id, {}))
  /\ req' = [req EXCEPT ![p] = Idle]
  /\ UNCHANGED <<workouts, exercises, workoutExercises, nextId>>

\* ------------------------------------------------------------------------
\* the exercise catalog
\* ------------------------------------------------------------------------
\* asc(exercises.name): names are compared character by character, a digit
\* before a letter, a name before every name it is the start of
Collation == <<"0", "1", "2", "3", "4", "5", "6", "7", "8", "9", "b">>
Rank(c) == CHOOSE i \in DOMAIN Collation : Collation[i] = c

RECURSIVE NameBefore(_, _)
NameBefore(a, b) ==
  IF b = <<>> THEN FALSE
  ELSE IF a = <<>> THEN TRUE
  ELSE IF Head(a) = Head(b) THEN NameBefore(Tail(a), Tail(b))
  ELSE Rank(Head(a)) < Rank(Head(b))

\* orderBy: asc(exercises.name); names are unique
RECURSIVE SortByName(_)
SortByName(S) ==
  IF S = {} THEN <<>>
  ELSE LET first == CHOOSE x \in S :
                      \A y \in S : x = y \/ NameBefore(x.name, y.name)
       IN <<first>> \o SortByName(S \ {first})

\* limit: n
Take(list, limit) ==
  SubSeq(list, 1, IF Len(list) < limit THEN Len(list) ELSE limit)

\* where: ilike(exercises.name, `%${searchTerm}%`)
SearchWhere(e, searchTerm) == ILike(e.name, <<"%">> \o searchTerm \o <<"%">>)

\* searchExercises: findMany of the matching rows, sorted, the first ten
searchExercises(p, userId, searchTerm) ==
  /\ Accept(p, userId)
  /\ LET found == {e \in exercises : SearchWhere(e, searchTerm)}
     IN response' = [NoResponse EXCEPT
                       !.op = "searchExercises", !.caller = userId,
                       !.name = searchTerm,
                       !.result = [Returned(0, {}) EXCEPT
                                     !.list = Take(SortByName(found), SearchLimit)]]
  /\ UNCHANGED <<tables, req>>

\* "Check if exercise already exists": where ilike(exercises.name, name)
ExistingExercises(name) == {e \in exercises : ILike(e.name, name)}

\* findFirst has no ORDER BY: the store may yield any matching row
createExercise_findFirst(p, userId, name) ==
  /\ Accept(p, userId)
  /\ IF ExistingExercises(name) # {}
       THEN /\ \E existing \in ExistingExercises(name) :
                 ReplyCreateExercise(userId, name, Returned(existing.id, {}))
            /\ UNCHANGED req
       ELSE /\ Goto(p, [Idle EXCEPT !.op = "createExercise", !.pc = "insert",
                          !.caller = userId, !.ename = name])
            /\ UNCHANGED response
  /\ UNCHANGED tables

\* exercises.name is text NOT NULL UNIQUE: equality of the stored text
NameTaken(name) == \E e \in exercises : e.name = name

\* insert into exercises values (name.trim())
createExercise_insert(p) ==
  /\ At(p, "createExercise", "insert")
  /\ IF NameTaken(Trim(req[p].ename))
       THEN /\ ReplyCreateExercise(req[p].caller, req[p].ename,
                                   Thrown(UniqueViolation))
            /\ UNCHANGED tables
       ELSE /\ exercises' = exercises \cup
                 {[id |-> nextId.exercise, name |-> Trim(req[p].ename)]}
            /\ nextId' = [nextId EXCEPT !.exercise = @ + 1]
            /\ ReplyCreateExercise(req[p].caller, req[p].ename,
                                   Returned(nextId.exercise, {}))
            /\ UNCHANGED <<workouts, workoutExercises, sets>>
  /\ req' = [req EXCEPT ![p] = Idle]

\* ------------------------------------------------------------------------
\* Specifications
\* ------------------------------------------------------------------------
\* Rows are never created beyond the bounds of a scope sc: a request that may
\* insert a row is only sent while there is room for its row.
Room(made, op, max) == made + Pending(op) <= max

\* The ids clients name: the ids the table has handed out so far and 0, which
\* no row ever has, so an id may name a row of the caller, a row of somebody
\* else, a row that is gone or no row at all.
Known(next) == 0..(next - 1)

\* A request arrives at p and runs its first statement.  The scope sc gives
\* the callers, the values of the arguments and the rows per table.
Read(p, sc) ==
  \/ \E u \in sc.callers, w \in Known(nextId.workout) : getWorkoutById(p, u, w)
  \/ \E u \in sc.callers, w \in Known(nextId.workout) : GET(p, u, w)

Arrive(p, sc) ==
  \/ \E u \in sc.callers, n \in sc.names, t \in sc.times :
       /\ Room(nextId.workout, "createWorkoutAction", sc.workouts)
       /\ createWorkoutAction(p, u, n, t, StorageOk)
  \/ \E u \in sc.callers, w \in Known(nextId.workout), n \in sc.renames,
        t \in sc.times :
       updateWorkout(p, u, w, n, t)
  \/ \E u \in sc.callers, w \in Known(nextId.workout), e \in Known(nextId.exercise) :
       /\ Room(nextId.workoutExercise, "addExerciseToWorkout", sc.workoutExercises)
       /\ addExerciseToWorkout_getWorkoutById(p, u, w, e)
  \/ \E u \in sc.callers, we \in Known(nextId.workoutExercise) :
       deleteWorkoutExercise_findFirst(p, u, we)
  \/ \E u \in sc.callers, we \in Known(nextId.workoutExercise), n \in RepsInputs :
       /\ Room(nextId.set, "addSet", sc.sets)
       /\ addSet_findFirst(p, u, we, NULL, n, NULL)
  \/ \E u \in sc.callers, s \in Known(nextId.set) : deleteSet_findFirst(p, u, s)

\* The dashboard: workouts are created and edited, and a day is looked up
ArriveDashboard(p, sc) ==
  \/ \E u \in sc.callers, n \in sc.names, t \in sc.times :
       /\ Room(nextId.workout, "createWorkoutAction", sc.workouts)
       /\ createWorkoutAction(p, u, n, t, StorageOk)
  \/ \E u \in sc.callers, w \in Known(nextId.workout), n \in sc.renames,
        t \in sc.times :
       updateWorkout(p, u, w, n, t)
  \/ \E u \in sc.callers, d \in sc.dates : getWorkoutsByDate(p, u, d)
  \/ \E u \in sc.callers : getWorkouts(p, u)

\* The server actions behind the workout forms
ArriveActions(p, sc) ==
  \/ \E u \in sc.callers, n \in sc.names, t \in sc.times, e \in sc.storage :
       /\ Room(nextId.workout, "createWorkoutAction", sc.workouts)
       /\ createWorkoutAction(p, u, n, t, e)
  \/ \E u \in sc.callers, w \in Known(nextId.workout) \cup {InvalidUuid},
        n \in sc.names, t \in sc.times, e \in sc.storage :
       updateWorkoutAction(p, u, w, n, t, e)

ArriveCatalog(p, sc) ==
  \E u \in sc.callers, n \in sc.enames :
     /\ Room(nextId.exercise, "createExercise", sc.exercises)
     /\ createExercise_findFirst(p, u, n)

\* The catalog is filled and searched: the next exercise is given one of the
\* next two names of the scope, and any of its terms is searched for
ArriveSearch(p, sc) ==
  \/ \E u \in sc.callers, k \in {nextId.exercise, nextId.exercise + 1} :
       /\ Room(nextId.exercise, "createExercise", sc.exercises)
       /\ k \in DOMAIN sc.enames
       /\ createExercise_findFirst(p, u, sc.enames[k])
  \/ \E u \in sc.callers, t \in sc.terms : searchExercises(p, u, t)

\* The request p serves runs its next statement.
Continue(p) ==
  \/ addExerciseToWorkout_findMany(p)
  \/ addExerciseToWorkout_insert(p)
  \/ deleteWorkoutExercise_delete(p)
  \/ addSet_insert(p)
  \/ deleteSet_delete(p)

ContinueCatalog(p) == createExercise_insert(p)

\* The add-set form of a workout exercise is filled in and submitted.
Submit(p, sc) ==
  \E u \in sc.callers, we \in Known(nextId.workoutExercise),
     w \in WeightTyped, n \in RepsTyped, t \in RestTimeTyped :
    /\ Room(nextId.set, "addSet", sc.sets)
    /\ AddSetForm_onSubmit(p, u, we, [weightKg |-> w, reps |-> n, restTime |-> t])

Anonymous(p) == \E op \in Ops : Unauthenticated(p, op)

\* Code of the application calls the helper createWorkout with a userId of
\* its choosing, in a request of any caller.
CallHelper(p, sc) ==
  \E c \in Callers, u \in Users, n \in sc.names, t \in sc.times :
     /\ Room(nextId.workout, "createWorkoutAction", sc.workouts)
     /\ createWorkout(p, c, u, n, t)

\* One diary: a signed-in user
Diary ==
  [callers |-> {"u1"}, names |-> {<<"a">>}, renames |-> {UNDEF}, times |-> {1},
   enames |-> {<<"B">>},
   workouts |-> MaxWorkouts, exercises |-> MaxExercises,
   workoutExercises |-> MaxWorkoutExercises, sets |-> MaxSets]

\* One diary, fewer rows
Race ==
  [Diary EXCEPT !.workouts = RaceWorkouts,
                !.workoutExercises = RaceWorkoutExercises, !.sets = RaceSets]

\* One diary and the workout page that reads it
Tree ==
  [Diary EXCEPT !.workoutExercises = TreeWorkoutExercises, !.sets = TreeSets]

\* One diary and its add-set form
Form ==
  [Diary EXCEPT !.workoutExercises = FormWorkoutExercises, !.sets = FormSets]

\* The dashboard of two users: workouts that start a tick before a day, on
\* its first and its last tick and a tick after it; a date of the day before
\* and a date inside that day
Dates ==
  [callers |-> Users, names |-> {<<"a">>}, renames |-> {UNDEF},
   times |-> {TicksPerDay - 1, TicksPerDay, 2 * TicksPerDay - 1, 2 * TicksPerDay},
   dates |-> {TicksPerDay - 1, TicksPerDay + 1},
   workouts |-> DatesWorkouts]

\* The workout forms of two users: any name, a date or none, and a store
\* that may fail
Actions ==
  [callers |-> Callers, names |-> WorkoutNames, times |-> {1, InvalidDate},
   storage |-> {StorageOk} \cup StorageErrors,
   workouts |-> ActionsWorkouts]

\* Two owners side by side
Owners ==
  [callers |-> Users, names |-> {<<"a">>}, renames |-> {<<"b">>}, times |-> {1},
   enames |-> {<<"B">>},
   workouts |-> OwnersWorkouts, exercises |-> MaxExercises,
   workoutExercises |-> OwnersWorkoutExercises, sets |-> OwnersSets]

\* The catalog and the names clients ask for
Catalog ==
  [callers |-> Users, enames |-> ExerciseNames, exercises |-> CatalogExercises]

\* A catalog that is searched
Search ==
  [callers |-> {"u1"}, enames |-> SearchNames, terms |-> SearchTerms,
   exercises |-> SearchExercises]

\* The catalog is filled and searched, one request at a time
NextSearch == ArriveSearch(1, Search) \/ ContinueCatalog(1)

SpecSearch == Init /\ [][NextSearch]_vars

\* Requests that change one diary, one at a time
NextSeq ==
  \/ Arrive(1, Diary)
  \/ ArriveCatalog(1, Diary)
  \/ Continue(1)
  \/ ContinueCatalog(1)

SpecSeq == Init /\ [][NextSeq]_vars

\* One diary, one request at a time, sets added through the form
NextForm ==
  \/ Arrive(1, Form)
  \/ ArriveCatalog(1, Form)
  \/ Continue(1)
  \/ ContinueCatalog(1)
  \/ Submit(1, Form)
  \/ addSetAction(1)

SpecForm == Init /\ [][NextForm]_vars

\* The dashboard of two users, one request at a time
NextDates == ArriveDashboard(1, Dates)

SpecDates == Init /\ [][NextDates]_vars

\* One diary, one request at a time, and the workout page that reads it
NextTree ==
  \/ Read(1, Tree)
  \/ Arrive(1, Tree)
  \/ ArriveCatalog(1, Tree)
  \/ Continue(1)
  \/ ContinueCatalog(1)

SpecTree == Init /\ [][NextTree]_vars

\* The server actions, one request at a time
NextActions ==
  \/ Anonymous(1)
  \/ ArriveActions(1, Actions)

SpecActions == Init /\ [][NextActions]_vars

\* One request at a time, of two owners
NextOwners ==
  \/ Read(1, Owners)
  \/ Arrive(1, Owners)
  \/ ArriveCatalog(1, Owners)
  \/ Continue(1)
  \/ ContinueCatalog(1)

SpecOwners == Init /\ [][NextOwners]_vars

\* The helpers of the data directory, called one at a time in requests of
\* two owners and of nobody
NextHelpers ==
  \/ Anonymous(1)
  \/ CallHelper(1, Owners)
  \/ Read(1, Owners)
  \/ Arrive(1, Owners)
  \/ ArriveCatalog(1, Owners)
  \/ Continue(1)
  \/ ContinueCatalog(1)

SpecHelpers == Init /\ [][NextHelpers]_vars

\* The workout forms next to the diaries of two owners: a name or none, a
\* store that works
Guards ==
  [Actions EXCEPT !.names = {<<>>, <<"a">>}, !.times = {1},
                  !.storage = {StorageOk}, !.workouts = OwnersWorkouts]

\* The functions that write
Mutations ==
  {"createWorkoutAction", "updateWorkoutAction", "addExerciseToWorkout",
   "deleteWorkoutExercise", "addSet", "deleteSet"}

AnonymousMutation(p) == \E op \in Mutations : Unauthenticated(p, op)

\* Every mutation of two owners and of nobody, one request at a time
NextGuards ==
  \/ AnonymousMutation(1)
  \/ ArriveActions(1, Guards)
  \/ Arrive(1, Owners)
  \/ ArriveCatalog(1, Owners)
  \/ Continue(1)
  \/ ContinueCatalog(1)

SpecGuards == Init /\ [][NextGuards]_vars

\* One diary, and requests of its owner and of nobody
Visitors == [Form EXCEPT !.callers = {"u1", NoUser}]

\* One request at a time, of the owner of the diary or of nobody
NextVisitors ==
  \/ Anonymous(1)
  \/ Read(1, Visitors)
  \/ Arrive(1, Visitors)
  \/ ArriveCatalog(1, Visitors)
  \/ Continue(1)
  \/ ContinueCatalog(1)

SpecVisitors == Init /\ [][NextVisitors]_vars

\* Requests that change one diary and overlap freely
Next ==
  \E p \in Procs :
    \/ Arrive(p, Race)
    \/ ArriveCatalog(p, Race)
    \/ Continue(p)
    \/ ContinueCatalog(p)

Spec == Init /\ [][Next]_vars

\* One diary with few rows
Integrity ==
  [Diary EXCEPT !.workoutExercises = IntegrityWorkoutExercises,
                !.sets = IntegritySets]

\* Requests that change a small diary and overlap freely
NextIntegrity ==
  \E p \in Procs :
    \/ Arrive(p, Integrity)
    \/ ArriveCatalog(p, Integrity)
    \/ Continue(p)
    \/ ContinueCatalog(p)

SpecIntegrity == Init /\ [][NextIntegrity]_vars

\* createExercise, one request at a time
NextCatalogSeq == ArriveCatalog(1, Catalog) \/ ContinueCatalog(1)

SpecCatalogSeq == Init /\ [][NextCatalogSeq]_vars

\* createExercise requests of two callers that overlap freely
NextCatalog == \E p \in Procs : ArriveCatalog(p, Catalog) \/ ContinueCatalog(p)

SpecCatalog == Init /\ [][NextCatalog]_vars

\* ------------------------------------------------------------------------
\* Properties
\* ------------------------------------------------------------------------
\* A step in which a request answers its client
Answers(op) == response' # response /\ response'.op = op

\* The rows in the ownership chain of user u
OwnedWorkouts(u) == {w \in workouts : w.userId = u}
OwnedWorkoutExercises(u) ==
  {we \in workoutExercises : \E w \in OwnedWorkouts(u) : w.id = we.workoutId}
OwnedSets(u) ==
  {s \in sets : \E we \in OwnedWorkoutExercises(u) : we.id = s.workoutExerciseId}
Owned(u) == <<OwnedWorkouts(u), OwnedWorkoutExercises(u), OwnedSets(u)>>

\* C1 (Spec): the sets of one workout exercise have pairwise distinct
\* setNumbers in every state, however the read-max and the insert statements
\* of overlapping addSet requests interleave.
C1_DistinctSetNumbers ==
  \A s1 \in sets : \A s2 \in sets :
    (s1.workoutExerciseId = s2.workoutExerciseId /\ s1.setNumber = s2.setNumber)
      => s1.id = s2.id

\* C2 (SpecOwners): a caller never reads, updates or deletes a row in the
\* ownership chain of another user: every workout a request returns belongs
\* to its caller, and every step that changes a row of user u is a statement
\* of a request of u.
C2_NoAccessToRowsOfOthers ==
  /\ [](\A w \in response.result.rows : w.userId = response.caller)
  /\ [][\/ UNCHANGED <<workouts, workoutExercises, sets>>
        \/ \A u \in Users \ {response'.caller} : Owned(u)' = Owned(u)]_vars

C2_Witness ==
  /\ response.op \in {"updateWorkout", "deleteWorkoutExercise", "deleteSet"}
  /\ response.target = "foreign"
  /\ response.caller = "u2"
  /\ OwnedSets("u1") # {}

\* C3 (SpecOwners): a request on an id owned by another user is answered as
\* the same request on an id that does not exist: two requests for the same
\* function by the same caller that follow each other, one naming a row of
\* somebody else and one naming no row, get the same outcome.
C3_ForeignAnsweredAsMissing ==
  [][(/\ response.op = response'.op
      /\ response.caller = response'.caller
      /\ response.target = "foreign"
      /\ response'.target = "missing")
     => response'.result = response.result]_vars

\* C4 (SpecCatalogSeq): createExercise with a name whose stored (trimmed) form
\* is, ignoring case, the name of a row of the catalog returns the id of that
\* row and adds nothing: it creates no duplicate and does not fail.
C4_CreateExerciseIdempotent ==
  [][Answers("createExercise") =>
       \A e \in exercises :
          EqualIgnoringCase(e.name, Trim(response'.name)) =>
            /\ response'.result = Returned(e.id, {})
            /\ exercises' = exercises]_vars

\* C5 (SpecCatalog): no two rows of the catalog have names that are equal
\* ignoring case, in every state reached by overlapping createExercise
\* requests of different callers.
C5_NamesUniqueIgnoringCase ==
  \A e1 \in exercises : \A e2 \in exercises :
    EqualIgnoringCase(e1.name, e2.name) => e1.id = e2.id

\* C6 (SpecSeq): deleteWorkoutExercise on a workout exercise of the caller
\* that has a set answers HasDependentSets and changes no row; on one that has
\* no set (none added, or all removed with deleteSet) it succeeds and removes
\* the row.
C6_DeleteNeedsNoSets ==
  [][(Answers("deleteWorkoutExercise") /\ response'.target = "own") =>
       IF SetsOf(response'.id) # {}
         THEN /\ response'.result = Thrown(HasDependentSetsMessage)
              /\ UNCHANGED tables
         ELSE /\ response'.result = Returned(response'.id, {})
              /\ WorkoutExerciseOf(response'.id) # {}
              /\ workoutExercises' = workoutExercises \ WorkoutExerciseOf(response'.id)
              /\ UNCHANGED <<workouts, exercises, sets, nextId>>]_vars

\* the only workout exercise ever added had sets, lost them all and is gone
C6_Witness ==
  /\ response.op = "deleteWorkoutExercise"
  /\ response.result.kind = "return"
  /\ nextId.workoutExercise = 2
  /\ nextId.set > 2
  /\ workoutExercises = {}

\* C7 (Spec): a workout exercise is deleted only when no set remains under
\* it: no step removes a workout exercise that has a set, so the cascade of
\* the delete never takes a set addSet has stored.
C7_DeletedOnlyWithoutSets ==
  [][\A we \in workoutExercises :
       we \notin workoutExercises' => SetsOf(we.id) = {}]_vars

C9_SetNumbersNotRenumbered ==
  [][/\ \A s \in sets' \ sets :
          LET numbers == {x.setNumber : x \in {y \in sets :
                             y.workoutExerciseId = s.workoutExerciseId}}
          IN s.setNumber = IF numbers = {} THEN 1 ELSE MaxOf(numbers) + 1
     /\ (Answers("deleteSet") /\ response'.result.kind = "return") =>
          /\ \E s \in sets : s.id = response'.id
          /\ sets' = {s \in sets : s.id # response'.id}]_vars

\* three sets 1, 2, 3 were added, the second was deleted: 1 and 3 remain
C9_Witness ==
  /\ response.op = "deleteSet"
  /\ response.result.kind = "return"
  /\ nextId.set = 4
  /\ \E we \in workoutExercises :
       {s.setNumber : s \in SetsOf(we.id)} = {1, 3}

\* C10 (Spec): the workout exercises of one workout have pairwise distinct
\* order values in every state, however the read-max and the insert
\* statements of overlapping addExerciseToWorkout requests interleave.
C10_DistinctOrder ==
  \A a \in workoutExercises : \A b \in workoutExercises :
    (a.workoutId = b.workoutId /\ a.order = b.order) => a.id = b.id

\* The order values of workout wId are exactly 0..n-1 for its n exercises
Contiguous(wId) ==
  {we.order : we \in ExercisesOfWorkout(wId)} =
    0..(Cardinality(ExercisesOfWorkout(wId)) - 1)

\* C11 as stated (SpecSeq): after any sequence of addExerciseToWorkout and
\* deleteWorkoutExercise requests, one at a time, the order values of the
\* exercises of every workout are exactly 0..n-1.
C11_OrderContiguous == \A w \in workouts : Contiguous(w.id)

\* C11 as amended (SpecSeq): the order values of a workout's exercises are
\* pairwise distinct and grow in the order of creation, and they are exactly
\* 0..n-1 as long as no exercise other than the one with the highest order
\* has been deleted: a step that keeps every exercise below the highest keeps
\* the range contiguous; deleteWorkoutExercise does not renumber.
C11_ContiguousUntilGap ==
  /\ [](\A a \in workoutExercises : \A b \in workoutExercises :
          (a.workoutId = b.workoutId /\ a.id < b.id) => a.order < b.order)
  /\ [][\A w \in workouts :
          (/\ Contiguous(w.id)
           /\ \A we \in ExercisesOfWorkout(w.id) :
                we \in workoutExercises' \/
                we.order = Cardinality(ExercisesOfWorkout(w.id)) - 1)
          => Contiguous(w.id)']_vars

\* two exercises were added, the second was deleted: order 0 remains
C11_Witness ==
  /\ response.op = "deleteWorkoutExercise"
  /\ response.result.kind = "return"
  /\ nextId.workoutExercise = 3
  /\ \E we \in workoutExercises : we.order = 0

\* What the create-set precondition asks of the typed values: reps is an
\* integer in 1..1000, restTime is absent or an integer in 0..3600, weight is
\* absent or a decimal with at most two fractional digits
AddSetInputValid(values) ==
  /\ ~IntegerOf(values.reps).nan
  /\ IntegerOf(values.reps).value \in 1..1000
  /\ Provided(values.restTime) =>
       /\ ~IntegerOf(values.restTime).nan
       /\ IntegerOf(values.restTime).value \in 0..3600
  /\ Provided(values.weightKg) => WeightRegex(values.weightKg)

\* C12 (SpecForm): an add-set request is accepted exactly when its input is
\* valid: a submission that is refused has an invalid input and stores
\* nothing, a submission that is handed on to addSet has a valid input, and
\* the set that addSet stores for it holds the reps that were typed.
C12_AddSetAcceptedIffValid ==
  [][/\ Answers("AddSetForm") =>
          (~AddSetInputValid(response'.values) /\ UNCHANGED tables)
     /\ (req[1] = Idle /\ req'[1].op = "AddSetForm") =>
          /\ AddSetInputValid(req'[1].values)
          /\ req'[1].reps = IntegerOf(req'[1].values.reps).value]_vars

\* C13 (SpecDates): getWorkoutsByDate(D) returns exactly the workouts of the
\* caller that start on the calendar day of D, the first and the last tick of
\* that day included and the ticks next to them excluded, each once, ordered
\* descending by startedAt, and changes nothing.
C13_WorkoutsOfTheDay ==
  [][Answers("getWorkoutsByDate") =>
       LET r == response'.result
           day == response'.date \div TicksPerDay
       IN /\ r.kind = "return"
          /\ r.rows = {w \in workouts :
                         /\ w.userId = response'.caller
                         /\ w.startedAt \div TicksPerDay = day}
          /\ Len(r.list) = Cardinality(r.rows)
          /\ {r.list[i].workout : i \in DOMAIN r.list} = r.rows
          /\ \A i \in DOMAIN r.list : \A j \in DOMAIN r.list :
               i < j => r.list[i].workout.startedAt >= r.list[j].workout.startedAt
          /\ UNCHANGED tables]_vars

\* the caller's workouts on the last and on the first tick of the day are
\* returned in this order; the caller's workout a tick later is not
C13_Witness ==
  /\ response.op = "getWorkoutsByDate"
  /\ Len(response.result.list) = 2
  /\ response.result.list[1].workout.startedAt = EndOfDay(response.date)
  /\ response.result.list[2].workout.startedAt = StartOfDay(response.date)
  /\ \E w \in workouts :
       /\ w.userId = response.caller
       /\ w.startedAt = EndOfDay(response.date) + 1

\* C14 (SpecTree): getWorkoutById, called by the owner of a workout, returns
\* that workout with exactly its workout exercises, each once, sorted
\* ascending by order, and inside each of them exactly its sets, each once,
\* sorted ascending by setNumber.
C14_TreeSortedAndComplete ==
  [][(Answers("getWorkoutById") /\ response'.target = "own") =>
       LET r == response'.result
           t == r.list[1].workoutExercises
       IN /\ r.kind = "return"
          /\ Len(r.list) = 1
          /\ {r.list[1].workout} = WorkoutOf(response'.id)
          /\ Len(t) = Cardinality(ExercisesOfWorkout(response'.id))
          /\ {t[i].workoutExercise : i \in DOMAIN t} = ExercisesOfWorkout(response'.id)
          /\ \A i \in DOMAIN t : \A j \in DOMAIN t :
               i < j => t[i].workoutExercise.order <= t[j].workoutExercise.order
          /\ \A i \in DOMAIN t :
               LET ss == t[i].sets IN
               /\ Len(ss) = Cardinality(SetsOf(t[i].workoutExercise.id))
               /\ {ss[k] : k \in DOMAIN ss} = SetsOf(t[i].workoutExercise.id)
               /\ \A k \in DOMAIN ss : \A m \in DOMAIN ss :
                    k < m => ss[k].setNumber <= ss[m].setNumber]_vars

\* a workout with two exercises, the second with two sets
C14_Witness ==
  /\ response.op = "getWorkoutById"
  /\ response.result.kind = "return"
  /\ Len(response.result.list[1].workoutExercises) = 2
  /\ Len(response.result.list[1].workoutExercises[2].sets) = 2

\* C15 (SpecVisitors): a request for which auth() resolves no user is answered
\* as unauthenticated, whatever function it calls, changes no row, and never
\* gets as far as a storage statement.
C15_UnauthenticatedTouchesNothing ==
  /\ [](\A p \in Procs : req[p].caller = NoUser => req[p] = Idle)
  /\ [](\A w \in workouts : w.userId # NoUser)
  /\ [][(response' # response /\ response'.caller = NoUser) =>
          /\ response'.result.kind \in {"throw", "fail"}
          /\ response'.result.msg \in {"Unauthorized", "401 Unauthorized"}
          /\ UNCHANGED <<tables, req>>]_vars

\* nobody is signed in and deleteSet is called while a set is stored
C15_Witness ==
  /\ response.caller = NoUser
  /\ response.op = "deleteSet"
  /\ sets # {}

\* A step in which one of the two server actions answers
ActionAnswers ==
  Answers("createWorkoutAction") \/ Answers("updateWorkoutAction")

C17_StorageFailureIsGeneric ==
  [][(ActionAnswers /\ response'.log \in StorageErrors) =>
       /\ response'.result =
            Failed(IF response'.op = "createWorkoutAction"
                     THEN "Failed to create workout"
                     ELSE "Failed to update workout")
       /\ UNCHANGED tables]_vars

C17_Witness ==
  /\ response.op = "createWorkoutAction"
  /\ response.log = "storage: timeout"
  /\ response.result.kind = "fail"

\* C18 (SpecActions): an error that is no storage failure reaches the caller
\* with its own message: updateWorkoutAction on a workout that is missing or
\* owned by someone else answers with the not-found-or-unauthorized message
\* of updateWorkout, which differs from the message of a storage failure.
C18_SpecificMessage ==
  [][(/\ Answers("updateWorkoutAction")
      /\ response'.log = "Workout not found or unauthorized") =>
       /\ response'.result = Failed("Workout not found or unauthorized")
       /\ response'.result # Failed("Failed to update workout")]_vars

\* C19 (SpecOwners): the userId of a workout never changes: in every step,
\* every workout that is still stored has the userId it had before.
C19_OwnerNeverChanges ==
  [][\A w \in workouts : \A v \in workouts' :
       v.id = w.id => v.userId = w.userId]_vars

\* the owner has renamed a workout
C19_Witness ==
  /\ response.op = "updateWorkout"
  /\ response.result.kind = "return"
  /\ \E w \in workouts : w.name = <<"b">> /\ w.userId = response.caller

\* C20 (SpecActions): createWorkoutAction and updateWorkoutAction refuse a
\* name exactly when its length after trimming is not in 1..100 (a name of
\* white space only is refused) and then write nothing; the name they store
\* is the trimmed name.
C20_NameValidAfterTrim ==
  [][(ActionAnswers /\ response'.caller # NoUser
                    /\ response'.id # InvalidUuid) =>
       LET ok == Len(Trim(response'.name)) \in 1..NameMax IN
       /\ (response'.result.msg \in
             {"Name is required", "Name must be less than 100 characters"})
            <=> ~ok
       /\ ~ok => UNCHANGED tables
       /\ response'.result.kind = "return" =>
            \E w \in workouts' : /\ w.id = response'.result.id
                                 /\ w.name = Trim(response'.name)]_vars

\* C21 (SpecOwners): a caller never creates a workout exercise under a
\* workout of another user nor a set under a workout exercise of another
\* user: every row that is inserted hangs under a workout of the caller of
\* the request that inserts it, and addExerciseToWorkout and addSet on an id
\* of somebody else fail and insert nothing.
C21_NoRowUnderForeignWorkout ==
  [][/\ \A we \in workoutExercises' \ workoutExercises :
          \E w \in workouts' : w.id = we.workoutId /\ w.userId = response'.caller
     /\ \A s \in sets' \ sets :
          \E we \in workoutExercises' :
             /\ we.id = s.workoutExerciseId
             /\ \E w \in workouts' :
                  w.id = we.workoutId /\ w.userId = response'.caller
     /\ ((Answers("addExerciseToWorkout") \/ Answers("addSet"))
           /\ response'.target = "foreign") =>
          /\ response'.result.kind = "throw"
          /\ UNCHANGED tables]_vars

\* u2 has called addSet on the workout exercise of u1, which still has no set
C21_Witness ==
  /\ response.op = "addSet"
  /\ response.target = "foreign"
  /\ response.caller = "u2"
  /\ OwnedWorkoutExercises("u1") # {}
  /\ sets = {}

\* C22 (SpecHelpers): every helper of the data directory authenticates the
\* request itself and takes the user from auth(), never from its arguments:
\* a request of nobody is answered Unauthorized and touches no table, no
\* request of nobody gets past its first statement, and every workout that
\* is stored belongs to the caller of the request that stores it.
C22_HelpersAuthenticateThemselves ==
  [][/\ (response' # response /\ response'.caller = NoUser) =>
          /\ response'.result.msg \in {"Unauthorized", "401 Unauthorized"}
          /\ UNCHANGED tables
     /\ \A p \in Procs : req'[p] # Idle => req'[p].caller # NoUser
     /\ \A w \in workouts' \ workouts : w.userId = response'.caller]_vars

\* C23 (SpecCatalog): a createExercise request whose insert meets the unique
\* constraint on the stored name, because an overlapping request stored the
\* name first, reads again and returns the row that now exists: it never
\* answers with a storage error, and for a name that is stored it returns the
\* row of that name and adds none.
C23_UniqueViolationRereads ==
  [][Answers("createExercise") =>
       /\ response'.result.kind = "return"
       /\ NameTaken(Trim(response'.name)) =>
            /\ \E e \in exercises :
                 e.name = Trim(response'.name) /\ e.id = response'.result.id
            /\ exercises' = exercises]_vars

\* C24 (SpecDates): getWorkouts returns exactly the workouts of its caller,
\* all of them and none of anybody else, each once, ordered descending by
\* startedAt; the rows its query selects are those rows already (nothing is
\* fetched and then filtered), and it changes nothing.
C24_WorkoutsOfTheCaller ==
  [][Answers("getWorkouts") =>
       LET r == response'.result IN
       /\ r.kind = "return"
       /\ r.rows = OwnedWorkouts(response'.caller)
       /\ Len(r.list) = Cardinality(r.rows)
       /\ {r.list[i].workout : i \in DOMAIN r.list} = r.rows
       /\ \A i \in DOMAIN r.list : \A j \in DOMAIN r.list :
            i < j => r.list[i].workout.startedAt >= r.list[j].workout.startedAt
       /\ UNCHANGED tables]_vars

\* the caller has two workouts that start at different times, somebody else
\* has one, and the caller gets the later one first
C24_Witness ==
  /\ response.op = "getWorkouts"
  /\ Len(response.result.list) = 2
  /\ response.result.list[1].workout.startedAt >
       response.result.list[2].workout.startedAt
  /\ \E w \in workouts : w.userId # response.caller

\* C25 (SpecCatalogSeq): createExercise(name) returns a row of the catalog
\* only when the name of that row equals the requested name ignoring case,
\* and it does return a row when one has that name; a row it inserts has the
\* trimmed requested name.  A requested name is never matched against a
\* different stored name.
C25_ExactMatchOrInsert ==
  [][Answers("createExercise") =>
       /\ \A e \in exercises :
            (response'.result.kind = "return" /\ e.id = response'.result.id) =>
              EqualIgnoringCase(e.name, response'.name)
       /\ \A e \in exercises' \ exercises :
            e.name = Trim(response'.name) /\ e.id = response'.result.id
       /\ (\E e \in exercises : EqualIgnoringCase(e.name, response'.name)) =>
            /\ response'.result.kind = "return"
            /\ exercises' = exercises]_vars

\* C26 (SpecSearch): searchExercises(term) returns at most 10 rows of the
\* catalog, each with a name that contains term ignoring case, sorted
\* ascending by name; it returns every such row when there are at most 10,
\* and the first 10 of them in that order when there are more.
C26_SearchFirstTenMatches ==
  [][Answers("searchExercises") =>
       LET l == response'.result.list
           term == response'.name
           Contains(name, t) ==
             \E i \in 0..(Len(name) - Len(t)) :
                \A k \in 1..Len(t) : Lower(name[i + k]) = Lower(t[k])
           matching == {e \in exercises : Contains(e.name, term)}
           returned == {l[i] : i \in DOMAIN l}
       IN /\ Len(l) <= 10
          /\ returned \subseteq matching
          /\ \A i \in DOMAIN l : \A j \in DOMAIN l :
               i < j => NameBefore(l[i].name, l[j].name)
          /\ Cardinality(matching) <= 10 => returned = matching
          /\ Cardinality(matching) > 10 => Len(l) = 10
          /\ \A e \in matching \ returned :
               \A i \in DOMAIN l : NameBefore(l[i].name, e.name)
          /\ UNCHANGED tables]_vars

\* C27 (SpecGuards): validators and the ownership guard fail before any
\* write: when createWorkoutAction, updateWorkoutAction, addExerciseToWorkout,
\* deleteWorkoutExercise, addSet or deleteSet ends as unauthenticated, with
\* an invalid input, with a row that is missing or owned by somebody else, or
\* with dependent sets, the request has answered in its first statement and
\* no row of any table has been inserted, updated or deleted.
C27_FailFastBeforeWrite ==
  [][LET r == response'
         unauthenticated == r.caller = NoUser
         invalidInput ==
           r.result.msg \in {"Name is required",
                              "Name must be less than 100 characters",
                              "Invalid date", "Invalid uuid"}
         notFoundOrUnauthorized ==
           \/ r.result.msg \in {"Unauthorized", "Exercise not found",
                                  "Set not found",
                                  "Workout not found or unauthorized"}
           \/ r.log = "Workout not found or unauthorized"
         hasDependentSets == r.result.msg = HasDependentSetsMessage
     IN (/\ r # response
         /\ r.op \in Mutations
         /\ r.result.kind \in {"throw", "fail"}
         /\ \/ unauthenticated
            \/ invalidInput
            \/ notFoundOrUnauthorized
            \/ hasDependentSets)
        => /\ UNCHANGED tables
           /\ req[1] = Idle /\ req'[1] = Idle]_vars

\* the owner was refused the deletion of a workout exercise that has a set
C27_Witness ==
  /\ response.op = "deleteWorkoutExercise"
  /\ response.result.msg = HasDependentSetsMessage
  /\ response.target = "own"
  /\ SetsOf(response.id) # {}

\* C28 (SpecSeq): with addSet and deleteSet requests served one at a time,
\* the setNumbers of the sets of one workout exercise are pairwise distinct
\* and at least 1 in every state, and every set that is added gets a number
\* greater than every setNumber its workout exercise holds at that moment.
C28_SetNumbersDistinctAndGrowing ==
  /\ [](\A s1 \in sets :
          /\ s1.setNumber >= 1
          /\ \A s2 \in sets :
               (s1.workoutExerciseId = s2.workoutExerciseId /\ s1.id # s2.id)
                 => s1.setNumber # s2.setNumber)
  /\ [][\A s \in sets' \ sets :
          \A x \in SetsOf(s.workoutExerciseId) : s.setNumber > x.setNumber]_vars

\* sets 1 and 2 were added, set 1 was deleted, and the set added next is 3
C28_Witness ==
  /\ response.op = "addSet"
  /\ response.result.kind = "return"
  /\ \E we \in workoutExercises :
       {s.setNumber : s \in SetsOf(we.id)} = {2, 3}

\* C29 (SpecIntegrity): referential integrity holds in every state, however
\* requests overlap: every set references a workout exercise that exists and
\* every workout exercise references a workout and an exercise that exist;
\* an addSet whose workout exercise is deleted between its ownership read and
\* its insert fails and stores no set.
C29_ReferentialIntegrity ==
  /\ [](\A s \in sets : WorkoutExerciseOf(s.workoutExerciseId) # {})
  /\ [](\A we \in workoutExercises :
          /\ WorkoutOf(we.workoutId) # {}
          /\ \E e \in exercises : e.id = we.exerciseId)
  /\ [][(Answers("addSet") /\ WorkoutExerciseOf(response'.id) = {}) =>
          /\ response'.result.kind = "throw"
          /\ sets' = sets]_vars

\* an addSet passed its ownership check, its workout exercise was deleted,
\* and its insert was refused by the foreign key
C29_Witness ==
  /\ response.op = "addSet"
  /\ response.result = Thrown(ForeignKeyViolation)
  /\ nextId.workoutExercise > 1
  /\ workoutExercises = {}

\* C30 (SpecDates): a workout that createWorkoutAction stores is owned by the
\* user auth() resolved for that request, whatever the request carries, and
\* the workouts of every other user are as they were: a caller cannot create
\* a workout owned by somebody else.
C30_CreatedWorkoutOwnedByCaller ==
  [][Answers("createWorkoutAction") =>
       /\ \A w \in workouts' \ workouts :
            w.userId = response'.caller /\ w.id = response'.result.id
       /\ \A u \in Users \ {response'.caller} :
            OwnedWorkouts(u)' = OwnedWorkouts(u)]_vars

\* u2 has created a workout of its own next to one of u1
C30_Witness ==
  /\ response.op = "createWorkoutAction"
  /\ response.caller = "u2"
  /\ OwnedWorkouts("u1") # {}
  /\ \E w \in workouts : w.id = response.result.id /\ w.userId = "u2"

====
